---- MODULE Spec2Model ----
(***************************************************************************)
(* The asynchronous retry engine of habitat-sh/retry                       *)
(* (src/src/asynchronous.rs) driving the delay iterators of                *)
(* src/src/delay.rs.                                                       *)
(*                                                                         *)
(* One run of retry_with_index is modelled.  A step of the model is what   *)
(* one poll of the future executes between two suspension points: the      *)
(* future suspends only at `operation(current_try).await` (line 38) and at *)
(* `time::sleep(delay).await` (line 42).  Durations are whole              *)
(* milliseconds.  The u64 of delay.rs is narrowed to 0..U64_MAX.           *)
(***************************************************************************)
EXTENDS Integers, Sequences, FiniteSets, TLC

VARIABLES
    entry,         \* the function called: "retry" or "retry_with_index"; where a
                   \* delay iterator is used on its own, the constructor call
    iterable,      \* the `iterable` argument, as passed (never changes)
    iterator,      \* `iterator`: the state of the delay iterator
    current_try,   \* `current_try`
    total_delay,   \* `total_delay`, in milliseconds
    delay,         \* `delay` bound by `if let Some(delay)`: Some(d) while sleeping
    pc,            \* "loop" | "operation" | "sleep" | "done" | "dropped"
    result,        \* what the run returned, [tag |-> "Pending"] before that
    calls,         \* history: the argument of each invocation of `operation`
                   \* (under retry, of the closure `|_| operation()` of line 17,
                   \* which invokes the caller's operation once; under
                   \* retry_future!, the current_try at each evaluation of
                   \* `$future`, which is not handed to it)
    outcomes,      \* history: the OperationResult of each finished attempt
    pulls,         \* history: the number of calls of iterator.next()
    pulled,        \* history: the delays iterator.next() returned as Some
    slept,         \* history: the delays whose time::sleep has completed
    returns,       \* history: the number of `return`s executed
    other          \* where two runs are interleaved: the locals and history of
                   \* the run that is not being polled; None otherwise

vars == <<entry, iterable, iterator, current_try, total_delay, delay, pc, result,
          calls, outcomes, pulls, pulled, slept, returns, other>>

(***************************************************************************)
(* Bounds of the model.                                                    *)
(***************************************************************************)
MaxTries == 4      \* invocations of the operation explored in one run
MaxLen == 3        \* longest explicit list of delays
MaxTake == 2       \* largest n of take(n)
MaxMillis == 2     \* largest constructor parameter, in milliseconds
U64_MAX == 255     \* std::u64::MAX, on the narrowed width
MaxPulls == 10     \* direct calls of next() on one delay iterator
MaxRangePulls == 3 \* the same, on a Range (each call branches)

VecDelays == {1, 2}
Millis == 0..MaxMillis
Values == {"v1", "v2"}
Errors == {"e1", "e2"}

None == <<>>
Some(x) == <<x>>

RECURSIVE Sum(_)
Sum(s) == IF s = <<>> THEN 0 ELSE Head(s) + Sum(Tail(s))

RECURSIVE SeqsUpTo(_, _)
SeqsUpTo(S, n) ==
    IF n = 0 THEN {<<>>}
    ELSE LET shorter == SeqsUpTo(S, n - 1)
         IN  shorter \cup {Append(s, x) : s \in {t \in shorter : Len(t) = n - 1}, x \in S}

(***************************************************************************)
(* OperationResult<R, E>: what one attempt reports.                        *)
(***************************************************************************)
OperationResult ==
    [tag : {"Ok"}, payload : Values] \cup [tag : {"Retry", "Err"}, payload : Errors]

\* What an operation's future may yield (OR: Into<OperationResult<R, E>>): a
\* plain Result<R, E>, as in most of the tests, or an OperationResult<R, E>.
OperationReturns ==
    [type : {"Result"}, tag : {"Ok"}, payload : Values]
    \cup [type : {"Result"}, tag : {"Err"}, payload : Errors]
    \cup {[type |-> "OperationResult", tag |-> o.tag, payload |-> o.payload] :
             o \in OperationResult}

\* `.into()`: a Result's Ok is Ok and its Err is Retry (the failure of a plain
\* Result is retryable); an OperationResult is itself.
Into(ret) ==
    IF ret.type = "Result"
    THEN [tag |-> IF ret.tag = "Ok" THEN "Ok" ELSE "Retry", payload |-> ret.payload]
    ELSE [tag |-> ret.tag, payload |-> ret.payload]

(***************************************************************************)
(* delay.rs: the constructors.                                             *)
(***************************************************************************)
FibonacciFromMillisFromZero(millis) ==
    [kind |-> "Fibonacci", curr |-> 0, next |-> millis]

ExponentialFromMillis(base) ==
    [kind |-> "Exponential", base |-> base, current |-> base]

FibonacciFromMillis(millis) ==
    [kind |-> "Fibonacci", curr |-> millis, next |-> millis]

FixedFromMillis(millis) == [kind |-> "Fixed", duration |-> millis]

NoDelay == [kind |-> "NoDelay"]

RangeFromMillisExclusiveClosed(minimum, maximum) ==
    IF minimum < maximum
    THEN [kind |-> "Range", low |-> minimum, high |-> maximum]
    ELSE [kind |-> "Panic"]

\* Uniform::new(minimum, maximum) is an error unless minimum < maximum, and
\* expect("Invalid Inputs") panics on it.
RangeFromMillisExclusive(minimum, maximum) ==
    IF minimum < maximum
    THEN [kind |-> "Range", low |-> minimum, high |-> maximum - 1]
    ELSE [kind |-> "Panic"]

\* Uniform::new_inclusive(minimum, maximum) is an error unless minimum <= maximum.
RangeFromMillisInclusive(minimum, maximum) ==
    IF minimum <= maximum
    THEN [kind |-> "Range", low |-> minimum, high |-> maximum]
    ELSE [kind |-> "Panic"]

\* An explicit list of delays (any finite IntoIterator<Item = Duration>).
VecIntoIter(items) == [kind |-> "Vec", items |-> items]

\* Iterator::take(n), as in NoDelay.take(1).
Take(iter, n) == [kind |-> "Take", iter |-> iter, n |-> n]

(***************************************************************************)
(* delay.rs: next() of each iterator.  Each yields the set of possible     *)
(* [item, iter] pairs: the Option returned and the iterator afterwards.    *)
(***************************************************************************)
\* u64::checked_mul
CheckedMul(a, b) == IF a * b > U64_MAX THEN None ELSE Some(a * b)

\* u64::checked_add
CheckedAdd(a, b) == IF a + b > U64_MAX THEN None ELSE Some(a + b)

ExponentialNextWraps(it) ==
    {[item |-> Some(it.current),
      iter |-> [it EXCEPT !.current = (it.current * it.base) % (U64_MAX + 1)]]}

ExponentialNext(it) ==
    LET duration == it.current
        next == CheckedMul(it.current, it.base)
    IN  {[item |-> Some(duration),
          iter |-> [it EXCEPT !.current = IF next # None THEN next[1] ELSE U64_MAX]]}

FibonacciNextWraps(it) ==
    {[item |-> Some(it.curr),
      iter |-> [it EXCEPT !.curr = it.next,
                          !.next = (it.curr + it.next) % (U64_MAX + 1)]]}

FibonacciNextKeepsNext(it) ==
    {[item |-> Some(it.curr),
      iter |-> IF it.curr + it.next <= U64_MAX
               THEN [it EXCEPT !.curr = it.next, !.next = it.curr + it.next]
               ELSE [it EXCEPT !.curr = it.next]]}

FibonacciNext(it) ==
    LET duration == it.curr
        next_next == CheckedAdd(it.curr, it.next)
    IN  {[item |-> Some(duration),
          iter |-> IF next_next # None
                   THEN [it EXCEPT !.curr = it.next, !.next = next_next[1]]
                   ELSE [it EXCEPT !.curr = it.next, !.next = U64_MAX]]}

FixedNext(it) == {[item |-> Some(it.duration), iter |-> it]}

NoDelayNext(it) == {[item |-> Some(0), iter |-> it]}

\* distribution.sample(&mut rng): any value of the range.
RangeNext(it) == {[item |-> Some(v), iter |-> it] : v \in it.low..it.high}

VecNext(it) ==
    IF it.items = <<>>
    THEN {[item |-> None, iter |-> it]}
    ELSE {[item |-> Some(Head(it.items)), iter |-> [it EXCEPT !.items = Tail(@)]]}

RECURSIVE IterNext(_)
IterNext(it) ==
    CASE it.kind = "Exponential" -> ExponentialNext(it)
      [] it.kind = "Fibonacci" -> FibonacciNext(it)
      [] it.kind = "Fixed" -> FixedNext(it)
      [] it.kind = "NoDelay" -> NoDelayNext(it)
      [] it.kind = "Range" -> RangeNext(it)
      [] it.kind = "Vec" -> VecNext(it)
      [] it.kind = "Take" ->
            IF it.n = 0
            THEN {[item |-> None, iter |-> it]}
            ELSE {[item |-> r.item, iter |-> Take(r.iter, it.n - 1)] : r \in IterNext(it.iter)}

(***************************************************************************)
(* The delay iterators a run may be given.                                 *)
(***************************************************************************)
Generators ==
    {NoDelay}
    \cup {FixedFromMillis(m) : m \in Millis}
    \cup {ExponentialFromMillis(m) : m \in Millis}
    \cup {FibonacciFromMillis(m) : m \in Millis}
    \cup {r \in {RangeFromMillisExclusive(a, b) : a \in Millis, b \in Millis} : r.kind # "Panic"}
    \cup {r \in {RangeFromMillisInclusive(a, b) : a \in Millis, b \in Millis} : r.kind # "Panic"}

Iterables ==
    {VecIntoIter(s) : s \in SeqsUpTo(VecDelays, MaxLen)}
    \cup Generators
    \cup {Take(g, n) : g \in Generators, n \in 0..MaxTake}

(***************************************************************************)
(* asynchronous.rs, retry_with_index: lines 33-35.                         *)
(***************************************************************************)
\* retry (lines 10-18) is retry_with_index with an operation that ignores
\* the attempt number.
Entries == {"retry", "retry_with_index"}

InitialTry == 1

InitialDelay == 0

Init ==
    /\ entry \in Entries
    /\ iterable \in Iterables
    /\ iterator = iterable
    /\ current_try = InitialTry
    /\ total_delay = InitialDelay
    /\ delay = None
    /\ pc = "loop"
    /\ result = [tag |-> "Pending"]
    /\ calls = <<>>
    /\ outcomes = <<>>
    /\ pulls = 0
    /\ pulled = <<>>
    /\ slept = <<>>
    /\ returns = 0
    /\ other = None

(***************************************************************************)
(* Line 38: `operation(current_try)` is called and its future awaited.     *)
(***************************************************************************)
InvokePrefetch ==
    /\ pc = "loop"
    /\ Len(calls) < MaxTries
    /\ \E r \in IterNext(iterator) : iterator' = r.iter
    /\ pulls' = pulls + 1
    /\ calls' = Append(calls, current_try)
    /\ pc' = "operation"
    /\ UNCHANGED <<other, entry, iterable, current_try, total_delay, delay, result,
                   outcomes, pulled, slept, returns>>

Invoke ==
    /\ pc = "loop"
    /\ Len(calls) < MaxTries
    /\ calls' = Append(calls, current_try)
    /\ pc' = "operation"
    /\ UNCHANGED <<other, entry, iterable, iterator, current_try, total_delay, delay, result,
                   outcomes, pulls, pulled, slept, returns>>

(***************************************************************************)
(* Lines 46-50 and 54-58: the Error a failing run returns.                 *)
(***************************************************************************)
ErrorOfFirst(error) ==
    [tag |-> "Err",
     error |-> IF outcomes = <<>> THEN error ELSE outcomes[1].payload,
     total_delay |-> total_delay,
     tries |-> current_try]

ErrorOf(error) ==
    [tag |-> "Err", error |-> error, total_delay |-> total_delay, tries |-> current_try]

\* `return`: the run is over.
Return(r) ==
    /\ result' = r
    /\ returns' = returns + 1
    /\ pc' = "done"

(***************************************************************************)
(* Line 39: OperationResult::Ok(value) => return Ok(value).                *)
(***************************************************************************)
OnOkPullsAhead(o) ==
    /\ o.tag = "Ok"
    /\ Return([tag |-> "Ok", value |-> o.payload])
    /\ \E r \in IterNext(iterator) : iterator' = r.iter
    /\ pulls' = pulls + 1
    /\ UNCHANGED <<current_try, total_delay, delay, pulled>>

OnOk(o) ==
    /\ o.tag = "Ok"
    /\ Return([tag |-> "Ok", value |-> o.payload])
    /\ UNCHANGED <<iterator, current_try, total_delay, delay, pulls, pulled>>

(***************************************************************************)
(* Lines 40-52: OperationResult::Retry(error): iterator.next(), and either *)
(* the sleep starts (Some(delay)) or the run returns the Error (None).     *)
(***************************************************************************)
OnRetryGivesUp(o) ==
    /\ o.tag = "Retry"
    /\ Return(ErrorOf(o.payload))
    /\ UNCHANGED <<iterator, current_try, total_delay, delay, pulls, pulled>>

OnRetryIgnoresExhaustion(o) ==
    /\ o.tag = "Retry"
    /\ \E r \in IterNext(iterator) :
          /\ iterator' = r.iter
          /\ pulls' = pulls + 1
          /\ IF r.item # None
             THEN /\ delay' = r.item
                  /\ pulled' = Append(pulled, r.item[1])
                  /\ pc' = "sleep"
             ELSE /\ pc' = "loop"
                  /\ UNCHANGED <<delay, pulled>>
          /\ UNCHANGED <<result, returns>>
    /\ UNCHANGED <<current_try, total_delay>>

OnRetrySkipsSleep(o) ==
    /\ o.tag = "Retry"
    /\ \E r \in IterNext(iterator) :
          /\ iterator' = r.iter
          /\ pulls' = pulls + 1
          /\ IF r.item # None
             THEN /\ pulled' = Append(pulled, r.item[1])
                  /\ current_try' = current_try + 1
                  /\ total_delay' = total_delay + r.item[1]
                  /\ pc' = "loop"
                  /\ UNCHANGED <<delay, result, returns>>
             ELSE /\ Return(ErrorOf(o.payload))
                  /\ UNCHANGED <<delay, pulled, current_try, total_delay>>

OnRetry(o) ==
    /\ o.tag = "Retry"
    /\ \E r \in IterNext(iterator) :
          /\ iterator' = r.iter
          /\ pulls' = pulls + 1
          /\ IF r.item # None
             THEN /\ delay' = r.item
                  /\ pulled' = Append(pulled, r.item[1])
                  /\ pc' = "sleep"
                  /\ UNCHANGED <<result, returns>>
             ELSE /\ Return(ErrorOf(o.payload))
                  /\ UNCHANGED <<delay, pulled>>
    /\ UNCHANGED <<current_try, total_delay>>

(***************************************************************************)
(* Lines 53-59: OperationResult::Err(error) => return the Error.           *)
(***************************************************************************)
OnErrConsults(o) ==
    /\ o.tag = "Err"
    /\ \E r \in IterNext(iterator) :
          /\ iterator' = r.iter
          /\ pulls' = pulls + 1
    /\ Return(ErrorOf(o.payload))
    /\ UNCHANGED <<current_try, total_delay, delay, pulled>>

OnErr(o) ==
    /\ o.tag = "Err"
    /\ Return(ErrorOf(o.payload))
    /\ UNCHANGED <<iterator, current_try, total_delay, delay, pulls, pulled>>

(***************************************************************************)
(* Lines 38-60: the awaited operation completes with ret, which .into()    *)
(* converts and the match dispatches.                                      *)
(***************************************************************************)
Resolve(ret) ==
    /\ pc = "operation"
    /\ outcomes' = Append(outcomes, Into(ret))
    /\ \/ OnOk(Into(ret))
       \/ OnRetry(Into(ret))
       \/ OnErr(Into(ret))
    /\ UNCHANGED <<other, entry, iterable, calls, slept>>

(***************************************************************************)
(* Lines 42-44: the sleep completes; current_try += 1; total_delay +=      *)
(* delay; back to the head of the loop.                                    *)
(***************************************************************************)
NextTryStuck(n) == n

NextTrySkips(n) == n + 2

NextTry(n) == n + 1

AddDelayOverwrite(total, d) == d

\* Duration's += panics past Duration::MAX (2^64 seconds): out of reach of
\* MaxTries delays of at most U64_MAX milliseconds each.
AddDelay(total, d) == total + d

WakeUncounted ==
    /\ pc = "sleep"
    /\ slept' = Append(slept, delay[1])
    /\ current_try' = NextTry(current_try)
    /\ delay' = None
    /\ pc' = "loop"
    /\ UNCHANGED <<other, entry, iterable, iterator, total_delay, result, calls, outcomes,
                   pulls, pulled, returns>>

Wake ==
    /\ pc = "sleep"
    /\ slept' = Append(slept, delay[1])
    /\ current_try' = NextTry(current_try)
    /\ total_delay' = AddDelay(total_delay, delay[1])
    /\ delay' = None
    /\ pc' = "loop"
    /\ UNCHANGED <<other, entry, iterable, iterator, result, calls, outcomes, pulls, pulled, returns>>

(***************************************************************************)
(* The caller drops the future while it is suspended at line 38 or 42.     *)
(***************************************************************************)
Drop ==
    /\ pc \in {"operation", "sleep"}
    /\ pc' = "dropped"
    /\ UNCHANGED <<other, entry, iterable, iterator, current_try, total_delay, delay, result,
                   calls, outcomes, pulls, pulled, slept, returns>>

Next ==
    \/ Invoke
    \/ \E ret \in OperationReturns : Resolve(ret)
    \/ Wake
    \/ Drop

Spec == Init /\ [][Next]_vars

(***************************************************************************)
(* The run when every attempt and every sleep completes: the future is     *)
(* polled until it returns and is never dropped.                           *)
(***************************************************************************)
NextLive ==
    \/ Invoke
    \/ \E ret \in OperationReturns : Resolve(ret)
    \/ Wake

LiveSpec == Init /\ [][NextLive]_vars /\ WF_vars(NextLive)

(***************************************************************************)
(* asynchronous.rs, retry_future! (lines 72-106): the async block the      *)
(* macro expands to.  Lines 75-77 set the same initial values as lines     *)
(* 33-35.                                                                  *)
(***************************************************************************)
\* Line 80: `$future` is evaluated and awaited.
MacroInvoke ==
    /\ pc = "loop"
    /\ Len(calls) < MaxTries
    /\ calls' = Append(calls, current_try)
    /\ pc' = "operation"
    /\ UNCHANGED <<other, entry, iterable, iterator, current_try, total_delay, delay, result,
                   outcomes, pulls, pulled, slept, returns>>

\* Lines 88-92 and 96-100.
MacroErrorOf(error) ==
    [tag |-> "Err", error |-> error, total_delay |-> total_delay, tries |-> current_try]

\* Line 81.
MacroOnOk(o) ==
    /\ o.tag = "Ok"
    /\ result' = [tag |-> "Ok", value |-> o.payload]
    /\ returns' = returns + 1
    /\ pc' = "done"
    /\ UNCHANGED <<iterator, current_try, total_delay, delay, pulls, pulled>>

\* Lines 82-94.
MacroOnRetry(o) ==
    /\ o.tag = "Retry"
    /\ \E r \in IterNext(iterator) :
          /\ iterator' = r.iter
          /\ pulls' = pulls + 1
          /\ IF r.item # None
             THEN /\ delay' = r.item
                  /\ pulled' = Append(pulled, r.item[1])
                  /\ pc' = "sleep"
                  /\ UNCHANGED <<result, returns>>
             ELSE /\ result' = MacroErrorOf(o.payload)
                  /\ returns' = returns + 1
                  /\ pc' = "done"
                  /\ UNCHANGED <<delay, pulled>>
    /\ UNCHANGED <<current_try, total_delay>>

\* Lines 95-101.
MacroOnErr(o) ==
    /\ o.tag = "Err"
    /\ result' = MacroErrorOf(o.payload)
    /\ returns' = returns + 1
    /\ pc' = "done"
    /\ UNCHANGED <<iterator, current_try, total_delay, delay, pulls, pulled>>

\* Lines 80-102: `$future.await.into()` and the match.
MacroResolve(ret) ==
    /\ pc = "operation"
    /\ outcomes' = Append(outcomes, Into(ret))
    /\ \/ MacroOnOk(Into(ret))
       \/ MacroOnRetry(Into(ret))
       \/ MacroOnErr(Into(ret))
    /\ UNCHANGED <<other, entry, iterable, calls, slept>>

MacroWakeStuck ==
    /\ pc = "sleep"
    /\ slept' = Append(slept, delay[1])
    /\ total_delay' = total_delay + delay[1]
    /\ delay' = None
    /\ pc' = "loop"
    /\ UNCHANGED <<other, entry, iterable, iterator, current_try, result, calls, outcomes,
                   pulls, pulled, returns>>

\* Lines 84-86: the sleep completes; current_try += 1; total_delay += delay.
MacroWake ==
    /\ pc = "sleep"
    /\ slept' = Append(slept, delay[1])
    /\ current_try' = current_try + 1
    /\ total_delay' = total_delay + delay[1]
    /\ delay' = None
    /\ pc' = "loop"
    /\ UNCHANGED <<other, entry, iterable, iterator, result, calls, outcomes, pulls, pulled, returns>>

\* The async block's future is dropped while suspended at line 80 or 84.
MacroDrop ==
    /\ pc \in {"operation", "sleep"}
    /\ pc' = "dropped"
    /\ UNCHANGED <<other, entry, iterable, iterator, current_try, total_delay, delay, result,
                   calls, outcomes, pulls, pulled, slept, returns>>

MacroNext ==
    \/ MacroInvoke
    \/ \E ret \in OperationReturns : MacroResolve(ret)
    \/ MacroWake
    \/ MacroDrop

(***************************************************************************)
(* A run of either: the functions (Next) or the macro (MacroNext), from    *)
(* the same initial values.                                                *)
(***************************************************************************)
InitEither ==
    /\ entry \in Entries \cup {"retry_future!"}
    /\ iterable \in Iterables
    /\ iterator = iterable
    /\ current_try = InitialTry
    /\ total_delay = InitialDelay
    /\ delay = None
    /\ pc = "loop"
    /\ result = [tag |-> "Pending"]
    /\ calls = <<>>
    /\ outcomes = <<>>
    /\ pulls = 0
    /\ pulled = <<>>
    /\ slept = <<>>
    /\ returns = 0
    /\ other = None

NextEither ==
    \/ entry \in Entries /\ Next
    \/ entry = "retry_future!" /\ MacroNext

EitherSpec == InitEither /\ [][NextEither]_vars

(***************************************************************************)
(* Two runs of retry_with_index interleaved by the executor, each with its *)
(* own iterator and operation.  The run being polled is in the variables   *)
(* of lines 33-35 and its history; the other run's are in `other`.  The    *)
(* executor can turn to the other run when this one is suspended at an     *)
(* .await (line 38 or 42), is over, or has not been polled yet.            *)
(***************************************************************************)
PairIterables ==
    {VecIntoIter(<<1, 2>>), Take(NoDelay, 1), Take(RangeFromMillisInclusive(1, 2), 1)}

\* The state of lines 33-35, with an empty history.
InitialRun(it) ==
    [entry |-> "retry_with_index", iterable |-> it, iterator |-> it,
     current_try |-> InitialTry, total_delay |-> InitialDelay, delay |-> None,
     pc |-> "loop", result |-> [tag |-> "Pending"], calls |-> <<>>,
     outcomes |-> <<>>, pulls |-> 0, pulled |-> <<>>, slept |-> <<>>, returns |-> 0]

ThisRun ==
    [entry |-> entry, iterable |-> iterable, iterator |-> iterator,
     current_try |-> current_try, total_delay |-> total_delay, delay |-> delay,
     pc |-> pc, result |-> result, calls |-> calls,
     outcomes |-> outcomes, pulls |-> pulls, pulled |-> pulled, slept |-> slept,
     returns |-> returns]

InitPair ==
    /\ entry = "retry_with_index"
    /\ iterable \in PairIterables
    /\ iterator = iterable
    /\ current_try = InitialTry
    /\ total_delay = InitialDelay
    /\ delay = None
    /\ pc = "loop"
    /\ result = [tag |-> "Pending"]
    /\ calls = <<>>
    /\ outcomes = <<>>
    /\ pulls = 0
    /\ pulled = <<>>
    /\ slept = <<>>
    /\ returns = 0
    /\ other \in {InitialRun(it) : it \in PairIterables}

SwitchSharesIterator ==
    /\ other # None
    /\ pc # "loop" \/ calls = <<>>
    /\ other' = ThisRun
    /\ entry' = other.entry
    /\ iterable' = other.iterable
    /\ iterator' = iterator
    /\ current_try' = other.current_try
    /\ total_delay' = other.total_delay
    /\ delay' = other.delay
    /\ pc' = other.pc
    /\ result' = other.result
    /\ calls' = other.calls
    /\ outcomes' = other.outcomes
    /\ pulls' = other.pulls
    /\ pulled' = other.pulled
    /\ slept' = other.slept
    /\ returns' = other.returns

\* The executor polls the other run: each run keeps its own locals.
Switch ==
    /\ other # None
    /\ pc # "loop" \/ calls = <<>>
    /\ other' = ThisRun
    /\ entry' = other.entry
    /\ iterable' = other.iterable
    /\ iterator' = other.iterator
    /\ current_try' = other.current_try
    /\ total_delay' = other.total_delay
    /\ delay' = other.delay
    /\ pc' = other.pc
    /\ result' = other.result
    /\ calls' = other.calls
    /\ outcomes' = other.outcomes
    /\ pulls' = other.pulls
    /\ pulled' = other.pulled
    /\ slept' = other.slept
    /\ returns' = other.returns

NextPair ==
    \/ Invoke
    \/ \E ret \in OperationReturns : Resolve(ret)
    \/ Wake
    \/ Drop
    \/ Switch

PairSpec == InitPair /\ [][NextPair]_vars

(***************************************************************************)
(* A run alone, as a function: the results lines 33-61 can give when the   *)
(* attempts report outs, in order, starting from iterator it, attempt      *)
(* number try and total delay total.  Pending: not returned after outs.    *)
(***************************************************************************)
RECURSIVE Alone(_, _, _, _)
Alone(it, outs, try, total) ==
    IF outs = <<>> THEN {[tag |-> "Pending"]}
    ELSE LET o == Head(outs)
             error == [tag |-> "Err", error |-> o.payload,
                       total_delay |-> total, tries |-> try]
         IN  CASE o.tag = "Ok" -> {[tag |-> "Ok", value |-> o.payload]}
               [] o.tag = "Err" -> {error}
               [] o.tag = "Retry" ->
                     UNION {IF r.item = None
                            THEN {error}
                            ELSE Alone(r.iter, Tail(outs), try + 1, total + r.item[1]) :
                            r \in IterNext(it)}

(***************************************************************************)
(* delay.rs on its own: an iterator is constructed and next() is called on *)
(* it, as the tests of lines 100-116 do.  `entry` is the constructor call, *)
(* `pulled` what the calls returned.                                       *)
(***************************************************************************)
Seeds == 0..U64_MAX

Constructions ==
    {[fn |-> "Exponential::from_millis", millis |-> m] : m \in Seeds}
    \cup {[fn |-> "Fibonacci::from_millis", millis |-> m] : m \in Seeds}
    \cup {[fn |-> "Fixed::from_millis", millis |-> m] : m \in Millis}
    \cup {[fn |-> "NoDelay"]}
    \cup {[fn |-> "Range::from_millis_exclusive", minimum |-> a, maximum |-> b] :
             a \in Millis, b \in Millis}
    \cup {[fn |-> "Range::from_millis_inclusive", minimum |-> a, maximum |-> b] :
             a \in Millis, b \in Millis}

Construct(c) ==
    CASE c.fn = "Exponential::from_millis" -> ExponentialFromMillis(c.millis)
      [] c.fn = "Fibonacci::from_millis" -> FibonacciFromMillis(c.millis)
      [] c.fn = "Fixed::from_millis" -> FixedFromMillis(c.millis)
      [] c.fn = "NoDelay" -> NoDelay
      [] c.fn = "Range::from_millis_exclusive" ->
            RangeFromMillisExclusive(c.minimum, c.maximum)
      [] c.fn = "Range::from_millis_inclusive" ->
            RangeFromMillisInclusive(c.minimum, c.maximum)

InitDelay ==
    /\ entry \in Constructions
    /\ iterable = Construct(entry)
    /\ iterator = iterable
    /\ current_try = InitialTry
    /\ total_delay = InitialDelay
    /\ delay = None
    /\ pc = "loop"
    /\ result = [tag |-> "Pending"]
    /\ calls = <<>>
    /\ outcomes = <<>>
    /\ pulls = 0
    /\ pulled = <<>>
    /\ slept = <<>>
    /\ returns = 0
    /\ other = None

\* iter.next(); a constructor that panicked left no iterator to call.
Pull ==
    /\ iterator.kind # "Panic"
    /\ Len(pulled) < (IF iterator.kind = "Range" THEN MaxRangePulls ELSE MaxPulls)
    /\ \E r \in IterNext(iterator) :
          /\ iterator' = r.iter
          /\ pulled' = IF r.item # None THEN Append(pulled, r.item[1]) ELSE pulled
    /\ pulls' = pulls + 1
    /\ UNCHANGED <<other, entry, iterable, current_try, total_delay, delay, pc, result,
                   calls, outcomes, slept, returns>>

DelaySpec == InitDelay /\ [][Pull]_vars

(***************************************************************************)
(* Notions the properties share.                                           *)
(***************************************************************************)
LastOutcome == outcomes[Len(outcomes)]

RetryCount == Cardinality({i \in 1..Len(outcomes) : outcomes[i].tag = "Retry"})

AllRetry == \A i \in 1..Len(outcomes) : outcomes[i].tag = "Retry"

YieldsNothing(it) ==
    \/ it.kind = "Vec" /\ it.items = <<>>
    \/ it.kind = "Take" /\ it.n = 0

\* C1: once an attempt reports Ok(v) the run has returned Ok(v): that attempt
\* is the last invocation, the only pulls and sleeps are those that followed
\* the earlier (retryable) attempts, and a success of the first attempt means
\* one invocation, with argument 1, and an untouched iterator.
C1_OkReturnsAtOnce ==
    result.tag = "Ok" =>
        /\ pc = "done"
        /\ returns = 1
        /\ LastOutcome = [tag |-> "Ok", payload |-> result.value]
        /\ Len(calls) = Len(outcomes)
        /\ pulls = Len(outcomes) - 1
        /\ Len(pulled) = Len(outcomes) - 1
        /\ Len(slept) = Len(outcomes) - 1
        /\ delay = None
        /\ (Len(outcomes) = 1 =>
                calls = <<1>> /\ pulls = 0 /\ slept = <<>> /\ iterator = iterable)

\* NoDelay.take(1), a retryable failure, then success: Ok on the second attempt.
C1_Witness ==
    /\ entry = "retry"
    /\ result = [tag |-> "Ok", value |-> "v2"]
    /\ iterable = Take(NoDelay, 1)
    /\ Len(outcomes) = 2

\* C2: a run ended by a fatal Err(e) returns Error{e, current_try,
\* total_delay} without having called next() for that attempt; on the first
\* attempt that is tries = 1, total_delay = 0 and an untouched iterator.
C2_FatalReturnsAtOnce ==
    (result.tag = "Err" /\ LastOutcome.tag = "Err") =>
        /\ pc = "done"
        /\ result.error = LastOutcome.payload
        /\ result.tries = current_try
        /\ result.total_delay = total_delay
        /\ pulls = Len(outcomes) - 1
        /\ Len(pulled) = Len(outcomes) - 1
        /\ (Len(outcomes) = 1 =>
                /\ result.tries = 1
                /\ result.total_delay = 0
                /\ pulls = 0
                /\ iterator = iterable)

\* A fatal failure of the first attempt while NoDelay.take(2) has delays left.
C2_Witness ==
    /\ result.tag = "Err"
    /\ outcomes = <<[tag |-> "Err", payload |-> "e1"]>>
    /\ iterable = Take(NoDelay, 2)
    /\ IterNext(iterator) = {[item |-> Some(0), iter |-> Take(NoDelay, 1)]}

\* C3: a finished run all of whose attempts reported Retry pulled every delay
\* the iterator had (N of them), invoked the operation N + 1 times and
\* returned Error{last error, tries = N + 1, total_delay = d1 + ... + dN}.
C3_Exhaustion ==
    (pc = "done" /\ AllRetry) =>
        /\ result.tag = "Err"
        /\ Len(calls) = Len(pulled) + 1
        /\ Len(outcomes) = Len(pulled) + 1
        /\ result.tries = Len(pulled) + 1
        /\ result.total_delay = Sum(pulled)
        /\ result.error = LastOutcome.payload
        /\ (iterable.kind = "Vec" => pulled = iterable.items)
        /\ (iterable.kind = "Take" => Len(pulled) = iterable.n)

\* The delays 1 and 2, three failing attempts.
C3_Witness ==
    /\ pc = "done"
    /\ AllRetry
    /\ iterable = VecIntoIter(<<1, 2>>)
    /\ result.tries = 3
    /\ result.total_delay = 3

\* C4: at each invocation and in every returned Error, the attempt counter is
\* the number of invocations so far and the number of delays obtained plus 1.
C4_TriesCountAttempts ==
    /\ pc = "operation" =>
            current_try = Len(calls) /\ current_try = Len(pulled) + 1
    /\ result.tag = "Err" =>
            result.tries = Len(calls) /\ result.tries = Len(pulled) + 1

\* A fatal failure of the third attempt.
C4_Witness ==
    /\ result.tag = "Err"
    /\ Len(outcomes) = 3
    /\ LastOutcome.tag = "Err"

\* C5: total_delay is the sum of the delays whose sleep has completed; a
\* delay pulled and not yet slept is not in it; a returned Error carries the
\* sum of all the delays pulled.
C5_TotalDelayIsSlept ==
    /\ total_delay = Sum(slept)
    /\ (delay # None => pulled = Append(slept, delay[1]))
    /\ (delay = None => pulled = slept)
    /\ (result.tag = "Err" => result.total_delay = Sum(pulled))

\* The run is dropped during its second sleep: 2 was pulled and is not counted.
C5_Witness ==
    /\ pc = "dropped"
    /\ delay = Some(2)
    /\ pulled = <<1, 2>>
    /\ total_delay = 1

\* C6: next() has been called once per attempt that reported Retry, and not
\* otherwise: never before the first attempt has reported, never ahead.
C6_PullsOnlyOnRetry ==
    /\ pulls = RetryCount
    /\ Len(pulled) <= pulls
    /\ (outcomes = <<>> => iterator = iterable)

\* Two retryable failures, two pulls, the third attempt under way.
C6_Witness ==
    /\ pulls = 2
    /\ pc = "operation"
    /\ Len(calls) = 3

\* C7: the k-th invocation receives k, and a returned Error's tries is the
\* number the last invocation received.
C7_AttemptNumbers ==
    /\ \A k \in 1..Len(calls) : calls[k] = k
    /\ (result.tag = "Err" => result.tries = calls[Len(calls)])

\* Three invocations, then the iterator is exhausted.
C7_Witness ==
    /\ entry = "retry_with_index"
    /\ calls = <<1, 2, 3>>
    /\ result.tag = "Err"
    /\ LastOutcome.tag = "Retry"
    /\ iterable.kind = "Take"

\* C8: a run that has returned invoked the operation at least once; with an
\* iterator that yields nothing, a retryable failure of the first attempt
\* ends the run: one invocation, Error{tries = 1, total_delay = 0}.
C8_AtLeastOneAttempt ==
    /\ (result.tag # "Pending" \/ pc = "done" => Len(calls) >= 1)
    /\ (YieldsNothing(iterable) /\ outcomes # <<>> /\ outcomes[1].tag = "Retry" =>
            /\ pc = "done"
            /\ calls = <<1>>
            /\ result = [tag |-> "Err", error |-> outcomes[1].payload,
                         total_delay |-> 0, tries |-> 1])

\* An empty list of delays and a retryable failure.
C8_Witness ==
    /\ entry = "retry"
    /\ iterable = VecIntoIter(<<>>)
    /\ outcomes = <<[tag |-> "Retry", payload |-> "e2"]>>
    /\ pc = "done"

\* C9: a failing run returns once, and the Error's error is the payload of
\* the last attempt, whichever way the run failed.
C9_LastErrorReturned ==
    /\ returns <= 1
    /\ (result.tag = "Err" =>
            /\ returns = 1
            /\ Len(outcomes) = Len(calls)
            /\ LastOutcome.tag \in {"Retry", "Err"}
            /\ result.error = LastOutcome.payload)

\* The first attempt failed with e1, the last with e2: e2 is returned.
C9_Witness ==
    /\ result.tag = "Err"
    /\ Len(outcomes) = 2
    /\ outcomes[1].payload = "e1"
    /\ outcomes[2] = [tag |-> "Retry", payload |-> "e2"]
    /\ result.error = "e2"

(***************************************************************************)
(* The engine as the state machine Attempting(n), Succeeded, Failed.  A    *)
(* run that was dropped stays in the Attempting(n) it was dropped in.      *)
(***************************************************************************)
Attempting(n) == [state |-> "Attempting", n |-> n]

EngineState ==
    IF result.tag = "Ok" THEN [state |-> "Succeeded", n |-> 0]
    ELSE IF result.tag = "Err" THEN [state |-> "Failed", n |-> 0]
    ELSE Attempting(current_try)

C10_Transition ==
    /\ EngineState.state = "Attempting"
    /\ \/ EngineState' = EngineState
       \/ /\ EngineState'.state = "Succeeded"
          /\ Len(outcomes') = Len(outcomes) + 1
          /\ outcomes'[Len(outcomes')].tag = "Ok"
       \/ /\ EngineState'.state = "Failed"
          /\ Len(outcomes') = Len(outcomes) + 1
          /\ outcomes'[Len(outcomes')].tag = "Err"
          /\ pulls' = pulls
       \/ /\ EngineState'.state = "Failed"
          /\ Len(outcomes') = Len(outcomes) + 1
          /\ outcomes'[Len(outcomes')].tag = "Retry"
          /\ pulls' = pulls + 1
          /\ pulled' = pulled
       \/ /\ EngineState' = Attempting(EngineState.n + 1)
          /\ outcomes' = outcomes
          /\ LastOutcome.tag = "Retry"
          /\ Len(pulled) = EngineState.n

\* C10: the run starts in Attempting(1) and every step is one of the four
\* transitions (or stays in its state); Succeeded and Failed are never left.
C10_StateMachine == EngineState = Attempting(1) /\ [][C10_Transition]_vars

\* Attempting(1), (2), (3), then Failed on exhaustion.
C10_Witness ==
    /\ EngineState.state = "Failed"
    /\ current_try = 3
    /\ AllRetry
    /\ iterable.kind = "Vec"

(***************************************************************************)
(* An iterator that ends: an explicit list, or take(n).                    *)
(***************************************************************************)
IsBounded(it) == it.kind \in {"Vec", "Take"}

Budget(it) == IF it.kind = "Vec" THEN Len(it.items) ELSE it.n

\* C11: with an iterator bounded to N delays a run whose attempts and sleeps
\* all complete returns, after at most N + 1 invocations, and the attempt it
\* returns on is the first success, the first fatal failure or the retryable
\* failure that found the iterator exhausted: every attempt before was Retry.
C11_BoundedRunsReturn ==
    /\ [](IsBounded(iterable) => Len(calls) <= Budget(iterable) + 1)
    /\ [](pc = "done" =>
            /\ \A i \in 1..(Len(outcomes) - 1) : outcomes[i].tag = "Retry"
            /\ \/ LastOutcome.tag \in {"Ok", "Err"}
               \/ LastOutcome.tag = "Retry" /\ pulls = Len(pulled) + 1)
    /\ (IsBounded(iterable) ~> pc = "done")

\* Fixed(1).take(2): three retryable failures use up the two delays.
C11_Witness ==
    /\ pc = "done"
    /\ iterable = Take(FixedFromMillis(1), 2)
    /\ Len(calls) = 3
    /\ pulls = 3

\* C12: attempt n + 1 starts only after the one wait, of the delay pulled
\* after attempt n, has completed: while an attempt is under way and when
\* the run has returned, the completed waits are exactly the delays pulled,
\* one fewer than the attempts; during a wait no further attempt has started.
C12_OneWaitBetweenAttempts ==
    /\ (pc \in {"operation", "done"} =>
            /\ slept = pulled
            /\ Len(slept) = Len(calls) - 1
            /\ delay = None)
    /\ (pc = "sleep" =>
            /\ delay = Some(pulled[Len(pulled)])
            /\ Len(calls) = Len(pulled)
            /\ Len(outcomes) = Len(calls)
            /\ slept = SubSeq(pulled, 1, Len(pulled) - 1))
    /\ (calls = <<>> => pulled = <<>> /\ slept = <<>> /\ delay = None)
    /\ Len(slept) <= Len(calls)
    /\ pulls <= Len(slept) + 1

\* Fixed(1): a retryable failure, one wait of 1 ms, then success.
C12_Witness ==
    /\ iterable = FixedFromMillis(1)
    /\ result.tag = "Ok"
    /\ slept = <<1>>
    /\ Len(calls) = 2

(***************************************************************************)
(* The delay iterators on their own (DelaySpec).                           *)
(***************************************************************************)
\* base^k, no longer multiplied once it has passed U64_MAX.
RECURSIVE PowCapped(_, _)
PowCapped(base, k) ==
    IF k = 0 THEN 1
    ELSE LET p == PowCapped(base, k - 1)
         IN  IF p > U64_MAX THEN p ELSE p * base

\* 1, 1, 2, 3, 5, 8, ...
RECURSIVE Fib(_)
Fib(k) == IF k <= 2 THEN 1 ELSE Fib(k - 1) + Fib(k - 2)

NonDecreasing(s) == \A k \in 1..(Len(s) - 1) : s[k] <= s[k + 1]

\* C13: the k-th pull of Exponential::from_millis(base) (k = n + 1) yields
\* base^k while that fits the u64 and U64_MAX from then on; it never wraps
\* and every pull yields a delay.
C13_ExponentialSaturates ==
    entry.fn = "Exponential::from_millis" =>
        /\ pulls = Len(pulled)
        /\ \A k \in 1..Len(pulled) :
              pulled[k] = IF PowCapped(entry.millis, k) <= U64_MAX
                          THEN PowCapped(entry.millis, k)
                          ELSE U64_MAX
        /\ iterator.base = entry.millis
        /\ iterator.current =
              IF PowCapped(entry.millis, Len(pulled) + 1) <= U64_MAX
              THEN PowCapped(entry.millis, Len(pulled) + 1)
              ELSE U64_MAX

\* Base 2: 2, 4, ..., 128, then 256 does not fit: U64_MAX, U64_MAX.
C13_Witness ==
    /\ entry = [fn |-> "Exponential::from_millis", millis |-> 2]
    /\ pulled = <<2, 4, 8, 16, 32, 64, 128, U64_MAX, U64_MAX>>

\* C14: Fibonacci::from_millis(seed) starts with curr = next = seed, and
\* while no sum has overflowed the k-th pull yields seed * Fib(k) and leaves
\* (curr, next) = (seed * Fib(k + 1), seed * Fib(k + 2)).
C14_FibonacciSequence ==
    entry.fn = "Fibonacci::from_millis" =>
        /\ (pulled = <<>> => iterator.curr = entry.millis /\ iterator.next = entry.millis)
        /\ \A k \in 1..Len(pulled) :
              entry.millis * Fib(k + 1) <= U64_MAX => pulled[k] = entry.millis * Fib(k)
        /\ (entry.millis * Fib(Len(pulled) + 2) <= U64_MAX =>
                /\ iterator.curr = entry.millis * Fib(Len(pulled) + 1)
                /\ iterator.next = entry.millis * Fib(Len(pulled) + 2))

\* Seed 10, as in the test of lines 100-109.
C14_Witness ==
    /\ entry = [fn |-> "Fibonacci::from_millis", millis |-> 10]
    /\ pulled = <<10, 10, 20, 30, 50, 80>>

(***************************************************************************)
(* The j-th pull of a Fibonacci overflowed: the curr it yielded plus the   *)
(* next of that moment, which is the curr the pull left, passes U64_MAX.   *)
(***************************************************************************)
OverflowAt(j) ==
    pulled[j] + (IF j < Len(pulled) THEN pulled[j + 1] ELSE iterator.curr) > U64_MAX

\* C15 as claimed: when the sum overflows during a pull the new next is
\* U64_MAX and every pull after that one yields U64_MAX.
C15_AllLaterPullsSaturated ==
    entry.fn = "Fibonacci::from_millis" =>
        \A j \in 1..Len(pulled) :
            OverflowAt(j) =>
                /\ (j = Len(pulled) => iterator.next = U64_MAX)
                /\ \A k \in (j + 1)..Len(pulled) : pulled[k] = U64_MAX

\* C15 as amended: when the sum overflows during a pull the new next is
\* U64_MAX and the new curr is the old next; the pull right after yields
\* that old next, and every pull from the second after on yields U64_MAX;
\* no pull wraps around or fails to yield.
C15_SaturatesAfterOldNext ==
    entry.fn = "Fibonacci::from_millis" =>
        /\ pulls = Len(pulled)
        /\ \A k \in 1..Len(pulled) : pulled[k] <= U64_MAX
        /\ \A j \in 1..Len(pulled) :
              OverflowAt(j) =>
                  /\ (j = Len(pulled) => iterator.next = U64_MAX)
                  /\ (j + 1 = Len(pulled) =>
                          iterator.curr = U64_MAX /\ iterator.next = U64_MAX)
                  /\ (j + 1 <= Len(pulled) /\ entry.millis * Fib(j + 1) <= U64_MAX =>
                          pulled[j + 1] = entry.millis * Fib(j + 1))
                  /\ \A k \in (j + 2)..Len(pulled) : pulled[k] = U64_MAX

\* Seed 10: 130 + 210 overflows in the 7th pull; the 8th yields 210, the old
\* next, and the 9th and 10th yield U64_MAX.
C15_Witness ==
    /\ entry = [fn |-> "Fibonacci::from_millis", millis |-> 10]
    /\ pulled = <<10, 10, 20, 30, 50, 80, 130, 210, U64_MAX, U64_MAX>>

\* C16: Range::from_millis_exclusive(min, max) panics exactly when
\* min >= max; otherwise every pull yields a v with min <= v < max.
C16_ExclusiveRange ==
    entry.fn = "Range::from_millis_exclusive" =>
        /\ (iterable.kind = "Panic" <=> entry.minimum >= entry.maximum)
        /\ (iterable.kind # "Panic" =>
                /\ pulls = Len(pulled)
                /\ \A k \in 1..Len(pulled) :
                      entry.minimum <= pulled[k] /\ pulled[k] < entry.maximum)

\* from_millis_exclusive(0, 2) has yielded both 0 and 1.
C16_Witness ==
    /\ entry = [fn |-> "Range::from_millis_exclusive", minimum |-> 0, maximum |-> 2]
    /\ pulled = <<1, 0, 1>>

\* C17: Range::from_millis_inclusive(min, max) panics exactly when
\* min >= max, min = max included; when it does not, every pull yields a v
\* with min <= v <= max.
C17_InclusiveRangeFailsLikeExclusive ==
    entry.fn = "Range::from_millis_inclusive" =>
        /\ (iterable.kind = "Panic" <=> entry.minimum >= entry.maximum)
        /\ (iterable.kind # "Panic" =>
                \A k \in 1..Len(pulled) :
                    entry.minimum <= pulled[k] /\ pulled[k] <= entry.maximum)

\* C20: the delays of a Fibonacci, with any seed, and of an Exponential with
\* base >= 1 never decrease, overflow or not; a Fibonacci keeps curr <= next.
C20_BackoffNeverDecreases ==
    /\ (entry.fn = "Fibonacci::from_millis" =>
            /\ NonDecreasing(pulled)
            /\ iterator.curr <= iterator.next
            /\ (pulled # <<>> => pulled[Len(pulled)] <= iterator.curr))
    /\ (entry.fn = "Exponential::from_millis" /\ entry.millis >= 1 =>
            /\ NonDecreasing(pulled)
            /\ (pulled # <<>> => pulled[Len(pulled)] <= iterator.current))

\* Seed 100: the sum overflows in the second pull and in the third.
C20_Witness ==
    /\ entry = [fn |-> "Fibonacci::from_millis", millis |-> 100]
    /\ pulled = <<100, 100, 200, U64_MAX>>

\* C19: retry_future! and retry_with_index are the same algorithm: from the
\* same state, with the same outcome of the attempt and the same answer of
\* the iterator, a step of the one is a step of the other, so that they make
\* the same attempts, pull and wait the same delays and return the same
\* result.  (The attempt number is not handed to the macro's future.)
C19_MacroIsTheFunction == [][Next /\ MacroNext]_vars

\* The macro on the delays 1 and 2: three failing attempts, tries 3, 3 ms.
C19_Witness ==
    /\ entry = "retry_future!"
    /\ iterable = VecIntoIter(<<1, 2>>)
    /\ result = [tag |-> "Err", error |-> "e1", total_delay |-> 3, tries |-> 3]

\* C18: with two interleaved runs, each with its own iterator and operation,
\* what each run has returned (or that it has not returned) is what the run
\* gives alone on its own iterator and its own attempts' outcomes, whatever
\* the interleaving.
C18_InterleavedRunsAreAlone ==
    /\ result \in Alone(iterable, outcomes, InitialTry, InitialDelay)
    /\ other.result \in
          Alone(other.iterable, other.outcomes, InitialTry, InitialDelay)

\* One run returned after three attempts while the other, started before, is
\* still in the sleep after its first attempt.
C18_Witness ==
    /\ result = [tag |-> "Err", error |-> "e2", total_delay |-> 3, tries |-> 3]
    /\ other.pc = "sleep"
    /\ other.calls = <<1>>
    /\ other.iterable = Take(NoDelay, 1)

====
